---------------------------- MODULE Spec2Model ----------------------------
(***************************************************************************)
(* A state-machine model of src/app360.py: the 360-degree panorama viewer. *)
(*                                                                         *)
(* Units.  The program computes with Python floats; the model computes     *)
(* with integers in fixed point:                                           *)
(*   - yaw and pitch are held in tenths of a degree (the mouse             *)
(*     sensitivity 0.2 degree/pixel is 2 tenths per pixel);                *)
(*   - fov is held in whole degrees (the program only adds or subtracts 1);*)
(*   - cam_x, cam_y, cam_z are held in tenths of a unit (the speed 0.2 is  *)
(*     2 tenths per tick).                                                 *)
(* The cursor positions explored turn the camera by quarter turns, where   *)
(* sin and cos are -1, 0 or 1; the float residue of math.cos(pi/2)         *)
(* (6e-17) is not represented.                                             *)
(*                                                                         *)
(* Toolkit behaviour the program relies on (Qt / PyQt5, not in src/):      *)
(*   - show() runs initializeGL and then the first resizeGL before the     *)
(*     event loop delivers any timer, input or paint event;                *)
(*   - an exception leaving a Python override of a Qt virtual aborts the   *)
(*     process (PyQt5 from 5.5 on);                                        *)
(*   - QApplication.quit() ends the event loop, and exec_() returns 0.     *)
(***************************************************************************)
EXTENDS Integers, FiniteSets, Sequences

VARIABLES
    profile,      \* the input alphabet of the explored session (a bound)
    pc,           \* position of the __main__ block / lifecycle of the process
    image_path,   \* result of QFileDialog.getOpenFileName
    exit_status,  \* status passed to sys.exit
    window,       \* a MainWindow (with its PanoramaViewer) has been created
    timer,        \* the viewer's 16 ms QTimer has been started
    texture_id,   \* None, "allocated" (glGenTextures) or "uploaded" (glTexImage2D)
    proj_fov,     \* the fov last handed to gluPerspective
    frames,       \* history: "none" before the first paintGL, then "current" while
                  \* every frame was painted with proj_fov = fov, else "stale"
    dirty,        \* a redraw has been requested by update() and is pending
    yaw, pitch, fov,
    cam_x, cam_y, cam_z,
    last_x, last_y,
    keys,
    down,         \* history: the keys whose most recent key event was a key-down
    pre           \* history: the camera before the tick, if the last step was a tick

vars == << profile, pc, image_path, exit_status, window, timer, texture_id,
           proj_fov, frames, dirty, yaw, pitch, fov, cam_x, cam_y, cam_z,
           last_x, last_y, keys, down, pre >>

---------------------------------------------------------------------------
(* Bounds of the exploration *)

\* at most this many keys are held at once
MaxHeld == 2
\* the camera is followed this many speed steps away from the origin, per axis
MaxSteps == 1
\* the yaw is followed this many quarter turns away from 0
MaxTurns == 1

---------------------------------------------------------------------------
(* Program constants *)

FovInit == 100
FovMin == 30
FovMax == 120
\* 89 degrees, in tenths of a degree
PitchLimit == 89 * 10
\* 0.2 degree per pixel, in tenths of a degree
sensitivity == 2
\* 0.2 unit per tick, in tenths of a unit
speed == 2
\* Python's None
None == "None"

Max(a, b) == IF a >= b THEN a ELSE b
Min(a, b) == IF a <= b THEN a ELSE b

MoveKeys == {"W", "A", "S", "D", "Q", "E"}

---------------------------------------------------------------------------
(* The inputs the environment draws from *)

Profiles == {"look", "zoom", "walk", "recentre"}

\* the keys the user touches in a session of profile p (Space is bound to
\* nothing in the program)
KeysOf(p) ==
    CASE p = "look" -> {"W", "Space", "Escape"}
      [] p = "zoom" -> {"Plus", "Equal", "Minus", "W", "E", "Escape"}
      [] p = "walk" -> MoveKeys \cup {"Escape"}
      [] p = "recentre" -> MoveKeys \cup {"Minus", "Escape"}

\* the cursor columns and rows (pixels) of the mouse events of profile p;
\* 450 pixels are a quarter turn, 200 and 650 pixels are 40 and 130 degrees
XsOf(p) == IF p = "walk" THEN {0, 450} ELSE {0}
YsOf(p) == IF p = "look" THEN {0, 200, 650} ELSE {0}

\* "" is a cancelled dialog; imread decodes pano.jpg and fails on broken.jpg
Paths == {"", "pano.jpg", "broken.jpg"}
imread(path) == IF path = "pano.jpg" THEN "img" ELSE None


---------------------------------------------------------------------------
(* Start of the process: app = QApplication(sys.argv), dialog not yet answered *)

Init ==
    /\ profile \in Profiles
    /\ pc = "dialog"
    /\ image_path = None
    /\ exit_status = None
    /\ window = FALSE
    /\ timer = FALSE
    /\ texture_id = None
    /\ proj_fov = None
    /\ frames = "none"
    /\ dirty = FALSE
    /\ yaw = None /\ pitch = None /\ fov = None
    /\ cam_x = None /\ cam_y = None /\ cam_z = None
    /\ last_x = None /\ last_y = None
    /\ keys = None
    /\ down = {}
    /\ pre = {}

---------------------------------------------------------------------------
(* __main__ *)

\* mutant: `if image_path is None`, which an empty string never is
CancelledIsNone(path) == path = None

\* `if not image_path`
Cancelled(path) == path = ""

\* the fields PanoramaViewer.__init__ assigns
ViewerInit ==
    [ yaw |-> 0, pitch |-> 0, fov |-> FovInit,
      cam_x |-> 0, cam_y |-> 0, cam_z |-> 0,
      last_x |-> 0, last_y |-> 0,
      texture_id |-> None, keys |-> {}, timer |-> TRUE ]

\* The dialog returns `path`.  A cancelled dialog ends the process with
\* sys.exit(0); otherwise MainWindow(image_path) builds the window and its viewer.
OpenDialog(path) ==
    /\ pc = "dialog"
    /\ image_path' = path
    /\ IF Cancelled(path)
       THEN /\ pc' = "exited"
            /\ exit_status' = 0
            /\ UNCHANGED << window, timer, texture_id, yaw, pitch, fov,
                            cam_x, cam_y, cam_z, last_x, last_y, keys >>
       ELSE /\ pc' = "constructed"
            /\ window' = TRUE
            /\ yaw' = ViewerInit.yaw
            /\ pitch' = ViewerInit.pitch
            /\ fov' = ViewerInit.fov
            /\ cam_x' = ViewerInit.cam_x
            /\ cam_y' = ViewerInit.cam_y
            /\ cam_z' = ViewerInit.cam_z
            /\ last_x' = ViewerInit.last_x
            /\ last_y' = ViewerInit.last_y
            /\ texture_id' = ViewerInit.texture_id
            /\ keys' = ViewerInit.keys
            /\ timer' = ViewerInit.timer
            /\ UNCHANGED exit_status
    /\ UNCHANGED << profile, proj_fov, frames, dirty, down, pre >>

---------------------------------------------------------------------------
(* OpenGL callbacks *)

\* mutant: the `img is None` check is missing
load_texture_unchecked(path) == "uploaded"

\* load_texture: "raise" when imread gives no image, before anything is
\* bound or uploaded; otherwise the texture ends uploaded
load_texture(path) ==
    IF imread(path) = None THEN "raise" ELSE "uploaded"

\* window.show() makes the GL context and calls initializeGL:
\* glGenTextures, then load_texture.  The RuntimeError is not caught anywhere:
\* the process aborts.
initializeGL ==
    /\ pc = "constructed"
    /\ IF load_texture(image_path) = "raise"
       THEN /\ texture_id' = "allocated"
            /\ pc' = "aborted"
       ELSE /\ texture_id' = load_texture(image_path)
            /\ pc' = "initialized"
    /\ UNCHANGED << profile, image_path, exit_status, window, timer, proj_fov,
                    frames, dirty, yaw, pitch, fov, cam_x, cam_y, cam_z,
                    last_x, last_y, keys, down, pre >>

\* update_projection: the fov handed to gluPerspective is the current self.fov
update_projection(f) == f

\* the first resize event, delivered by show(); the window has a fixed size,
\* so there is no later one
resizeGL ==
    /\ pc = "initialized"
    /\ proj_fov' = update_projection(fov)
    /\ pc' = "running"
    /\ UNCHANGED << profile, image_path, exit_status, window, timer, texture_id,
                    frames, dirty, yaw, pitch, fov, cam_x, cam_y, cam_z,
                    last_x, last_y, keys, down, pre >>

\* the state in which the toolkit may deliver a paint event
CanPaint == pc = "running"

\* the first resizeGL has run: gluPerspective has been given a fov
Projected == pc \in {"running", "exited"}

\* paintGL draws a frame with the projection in force; it changes no field.
\* Qt paints after update() and also on its own (first show, expose).
paintGL ==
    /\ CanPaint
    /\ frames' = IF frames # "stale" /\ Projected /\ proj_fov = fov
                 THEN "current" ELSE "stale"
    /\ dirty' = FALSE
    /\ pre' = {}
    /\ UNCHANGED << profile, pc, image_path, exit_status, window, timer,
                    texture_id, proj_fov, yaw, pitch, fov, cam_x, cam_y, cam_z,
                    last_x, last_y, keys, down >>

---------------------------------------------------------------------------
(* Input handlers *)

mousePressEvent(x, y) ==
    /\ pc = "running"
    /\ last_x' = x
    /\ last_y' = y
    /\ pre' = {}
    /\ UNCHANGED << profile, pc, image_path, exit_status, window, timer,
                    texture_id, proj_fov, frames, dirty, yaw, pitch, fov,
                    cam_x, cam_y, cam_z, keys, down >>

\* mutant: the lower clamp is missing, min(89, pitch)
ClampPitchNoFloor(p) == Min(PitchLimit, p)

\* max(-89, min(89, pitch))
ClampPitch(p) == Max(-PitchLimit, Min(PitchLimit, p))

\* Without mouse tracking Qt delivers moves only during a drag, after a press;
\* a move with the initial reference (0, 0) is the move after a press at (0, 0),
\* which every profile contains.
mouseMoveEvent(x, y) ==
    /\ pc = "running"
    /\ LET dx == x - last_x
           dy == y - last_y
       IN /\ yaw' = yaw + dx * sensitivity
          /\ pitch' = ClampPitch(pitch + dy * sensitivity)
    /\ yaw' <= MaxTurns * 900 /\ yaw' >= -(MaxTurns * 900)
    /\ last_x' = x
    /\ last_y' = y
    /\ dirty' = TRUE
    /\ pre' = {}
    /\ UNCHANGED << profile, pc, image_path, exit_status, window, timer,
                    texture_id, proj_fov, frames, fov, cam_x, cam_y, cam_z,
                    keys, down >>

\* self.keys.add(event.key())
KeysAfterPress(ks, k) == ks \cup {k}

\* mutant: the key-up handler leaves the set alone
KeysAfterReleaseKept(ks, k) == ks

\* self.keys.discard(event.key())
KeysAfterRelease(ks, k) == ks \ {k}

\* Escape also calls QApplication.quit(): the event loop ends, exec_() returns
\* 0 and the process exits with it.
keyPressEvent(k) ==
    /\ pc = "running"
    /\ Cardinality(keys \cup {k}) <= MaxHeld
    /\ keys' = KeysAfterPress(keys, k)
    /\ down' = down \cup {k}
    /\ IF k = "Escape"
       THEN pc' = "exited" /\ exit_status' = 0
       ELSE UNCHANGED << pc, exit_status >>
    /\ pre' = {}
    /\ UNCHANGED << profile, image_path, window, timer, texture_id, proj_fov,
                    frames, dirty, yaw, pitch, fov, cam_x, cam_y, cam_z,
                    last_x, last_y >>

keyReleaseEvent(k) ==
    /\ pc = "running"
    /\ keys' = KeysAfterRelease(keys, k)
    /\ down' = down \ {k}
    /\ pre' = {}
    /\ UNCHANGED << profile, pc, image_path, exit_status, window, timer,
                    texture_id, proj_fov, frames, dirty, yaw, pitch, fov,
                    cam_x, cam_y, cam_z, last_x, last_y >>

---------------------------------------------------------------------------
(* The movement loop *)

\* math.sin and math.cos of a yaw of whole quarter turns (tenths of a degree)
Quarter(yw) == (yw \div 900) % 4
Sin(yw) == CASE Quarter(yw) = 0 -> 0
             [] Quarter(yw) = 1 -> 1
             [] Quarter(yw) = 2 -> 0
             [] Quarter(yw) = 3 -> -1
Cos(yw) == CASE Quarter(yw) = 0 -> 1
             [] Quarter(yw) = 1 -> 0
             [] Quarter(yw) = 2 -> -1
             [] Quarter(yw) = 3 -> 0

forward_x(yw) == Sin(yw)
forward_z(yw) == -Cos(yw)
right_x(yw) == Cos(yw)
right_z(yw) == Sin(yw)

\* mutant: the A branch adds the right vector, as the D branch does
MovedXAAdds(ks, yw, x) ==
    LET w == IF "W" \in ks THEN x + forward_x(yw) * speed ELSE x
        s == IF "S" \in ks THEN w - forward_x(yw) * speed ELSE w
        a == IF "A" \in ks THEN s + right_x(yw) * speed ELSE s
        d == IF "D" \in ks THEN a + right_x(yw) * speed ELSE a
    IN  d

\* cam_x after the W, S, A and D branches, in the order of the code
MovedX(ks, yw, x) ==
    LET w == IF "W" \in ks THEN x + forward_x(yw) * speed ELSE x
        s == IF "S" \in ks THEN w - forward_x(yw) * speed ELSE w
        a == IF "A" \in ks THEN s - right_x(yw) * speed ELSE s
        d == IF "D" \in ks THEN a + right_x(yw) * speed ELSE a
    IN  d

\* cam_z after the W, S, A and D branches
MovedZ(ks, yw, z) ==
    LET w == IF "W" \in ks THEN z + forward_z(yw) * speed ELSE z
        s == IF "S" \in ks THEN w - forward_z(yw) * speed ELSE w
        a == IF "A" \in ks THEN s - right_z(yw) * speed ELSE s
        d == IF "D" \in ks THEN a + right_z(yw) * speed ELSE a
    IN  d

\* mutant: the E branch tests the key code, which is always true, not its
\* membership in self.keys
MovedYAlwaysUp(ks, y) ==
    LET q == IF "Q" \in ks THEN y - speed ELSE y
    IN  q + speed

\* cam_y after the Q and E branches
MovedY(ks, y) ==
    LET q == IF "Q" \in ks THEN y - speed ELSE y
        e == IF "E" \in ks THEN q + speed ELSE q
    IN  e

\* mutant: the floor of 30 is missing
ZoomedInNoFloor(ks, f) ==
    IF "Plus" \in ks \/ "Equal" \in ks THEN f - 1 ELSE f

\* fov after the Plus/Equal branch
ZoomedIn(ks, f) ==
    IF "Plus" \in ks \/ "Equal" \in ks THEN Max(FovMin, f - 1) ELSE f

\* fov after the Minus branch
ZoomedOut(ks, f) ==
    IF "Minus" \in ks THEN Min(FovMax, f + 1) ELSE f

\* mutant: the Minus branch does not reset the position
RecentredNever(ks, c) == c

\* mutant: the zoom-in branch resets the position as well
RecentredOnAnyZoom(ks, c) ==
    IF "Minus" \in ks \/ "Plus" \in ks \/ "Equal" \in ks THEN 0 ELSE c

\* a camera coordinate after the Minus branch, which sets all three to 0.0
Recentred(ks, c) == IF "Minus" \in ks THEN 0 ELSE c

\* mutant: the zoom branches do not call update_projection
ReprojectedNever(ks, p, f_in, f_out) == p

\* the fov gluPerspective holds after the two zoom branches: each calls
\* update_projection right after its assignment to self.fov
Reprojected(ks, p, f_in, f_out) ==
    LET a == IF "Plus" \in ks \/ "Equal" \in ks THEN update_projection(f_in) ELSE p
        b == IF "Minus" \in ks THEN update_projection(f_out) ELSE a
    IN  b

\* the exploration stops following a camera that leaves the box
InBox(c) == c <= MaxSteps * speed /\ c >= -(MaxSteps * speed)

\* the QTimer's timeout: one tick of the movement loop
update_movement ==
    /\ pc = "running"
    /\ timer
    /\ LET f_in == ZoomedIn(keys, fov)
           f_out == ZoomedOut(keys, f_in)
       IN /\ cam_x' = Recentred(keys, MovedX(keys, yaw, cam_x))
          /\ cam_y' = Recentred(keys, MovedY(keys, cam_y))
          /\ cam_z' = Recentred(keys, MovedZ(keys, yaw, cam_z))
          /\ fov' = f_out
          /\ proj_fov' = Reprojected(keys, proj_fov, f_in, f_out)
    /\ InBox(cam_x') /\ InBox(cam_y') /\ InBox(cam_z')
    /\ dirty' = TRUE
    /\ pre' = {[x |-> cam_x, y |-> cam_y, z |-> cam_z, fov |-> fov]}
    /\ UNCHANGED << profile, pc, image_path, exit_status, window, timer,
                    texture_id, frames, yaw, pitch, last_x, last_y, keys, down >>

---------------------------------------------------------------------------

Next ==
    \/ \E path \in Paths : OpenDialog(path)
    \/ initializeGL
    \/ resizeGL
    \/ paintGL
    \/ \E x \in XsOf(profile), y \in YsOf(profile) : mousePressEvent(x, y)
    \/ \E x \in XsOf(profile), y \in YsOf(profile) : mouseMoveEvent(x, y)
    \/ \E k \in KeysOf(profile) : keyPressEvent(k)
    \/ \E k \in KeysOf(profile) : keyReleaseEvent(k)
    \/ update_movement

Spec == Init /\ [][Next]_vars

---------------------------------------------------------------------------
(* Properties *)

\* 1 if key k is in ks, else 0
Held(ks, k) == IF k \in ks THEN 1 ELSE 0

\* the displacement the held movement keys ask for in one tick at yaw yw:
\* W/S along forward = (sin, 0, -cos), D/A along right = (cos, 0, sin),
\* E/Q along the vertical axis, each 0.2 long (2 tenths)
DispX(ks, yw) ==
    (Held(ks, "W") - Held(ks, "S")) * 2 * Sin(yw)
    + (Held(ks, "D") - Held(ks, "A")) * 2 * Cos(yw)
DispY(ks) == (Held(ks, "E") - Held(ks, "Q")) * 2
DispZ(ks, yw) ==
    (Held(ks, "S") - Held(ks, "W")) * 2 * Cos(yw)
    + (Held(ks, "D") - Held(ks, "A")) * 2 * Sin(yw)

AtOrigin == cam_x = 0 /\ cam_y = 0 /\ cam_z = 0

\* C1: pitch lies in [-89, 89] degrees in every state of the viewer, it is 0
\* right after construction, and only mouseMoveEvent changes it.
PitchInRange ==
    /\ window => pitch >= -890 /\ pitch <= 890
    /\ pc = "constructed" => pitch = 0
PitchAlwaysClamped ==
    /\ []PitchInRange
    /\ [][(window /\ pitch' # pitch) =>
             \E x \in XsOf(profile), y \in YsOf(profile) : mouseMoveEvent(x, y)]_vars
\* a drag has driven the pitch into the lower limit, with a key held and the
\* camera moved by a tick
PitchClampedWitness ==
    window /\ pitch = -890 /\ "W" \in keys /\ cam_z # 0

\* C2: fov lies in [30, 120] in every state of the viewer, and it is 100 right
\* after construction.
FovAlwaysInRange ==
    /\ window => fov >= 30 /\ fov <= 120
    /\ pc = "constructed" => fov = 100
\* a tick has run with zoom-in and zoom-out both held, from the floor of 30
FovInRangeWitness ==
    \E t \in pre : t.fov = 30 /\ "Plus" \in keys /\ "Minus" \in keys

\* C3 as stated: a tick with Minus held ends at the origin with
\* fov = min(120, fov + 1), fov being the value before the tick.
MinusTickRecentresAndAddsOne ==
    \A t \in pre : "Minus" \in keys =>
        AtOrigin /\ fov = Min(120, t.fov + 1)
\* C3 as amended: a tick with Minus held ends at the origin, and fov becomes
\* min(120, f + 1) where f is the fov before the tick, or max(30, fov - 1) when
\* a zoom-in key is held in the same tick.
MinusTickRecentres ==
    \A t \in pre : "Minus" \in keys =>
        /\ AtOrigin
        /\ fov = Min(120, (IF "Plus" \in keys \/ "Equal" \in keys
                           THEN Max(30, t.fov - 1) ELSE t.fov) + 1)
\* a tick has run with Minus and W held, away from the origin, at the cap
MinusTickWitness ==
    \E t \in pre : "Minus" \in keys /\ "W" \in keys /\ t.z # 0 /\ t.fov = 120

\* C4 as stated: a tick with no movement key held leaves the position unchanged.
IdleTickKeepsPosition ==
    \A t \in pre : keys \cap MoveKeys = {} =>
        cam_x = t.x /\ cam_y = t.y /\ cam_z = t.z
\* C4 as amended: a tick with no movement key held leaves the position
\* unchanged unless Minus is held, and then it ends at the origin.
IdleTickKeepsPositionUnlessMinus ==
    \A t \in pre : keys \cap MoveKeys = {} =>
        IF "Minus" \in keys
        THEN AtOrigin
        ELSE cam_x = t.x /\ cam_y = t.y /\ cam_z = t.z
\* a tick has run away from the origin after every movement key was released
IdleTickWitness ==
    \E t \in pre : keys \cap MoveKeys = {} /\ "Minus" \notin keys
                   /\ t.x # 0 /\ cam_x = t.x

\* C5 as stated: a tick with exactly W and A held adds 0.2*forward + 0.2*right.
WAAddsForwardPlusRight ==
    \A t \in pre : keys = {"W", "A"} =>
        /\ cam_x = t.x + 2 * Sin(yaw) + 2 * Cos(yaw)
        /\ cam_y = t.y
        /\ cam_z = t.z - 2 * Cos(yaw) + 2 * Sin(yaw)
\* C5 as amended: a tick with exactly W and A held adds 0.2*forward - 0.2*right
\* (A moves against the right vector).
WAAddsForwardMinusRight ==
    \A t \in pre : keys = {"W", "A"} =>
        /\ cam_x = t.x + 2 * Sin(yaw) - 2 * Cos(yaw)
        /\ cam_y = t.y
        /\ cam_z = t.z - 2 * Cos(yaw) - 2 * Sin(yaw)
\* a tick has run with exactly W and A held at a yaw of a quarter turn
WAWitness ==
    \E t \in pre : keys = {"W", "A"} /\ yaw = 900 /\ cam_x = t.x + 2

\* C6: with an image that does not decode, initializeGL aborts the process:
\* no texture is uploaded, no frame is painted, nothing runs afterwards.
DecodeFailureIsFatal ==
    /\ (window /\ image_path = "broken.jpg") =>
           /\ pc \in {"constructed", "aborted"}
           /\ texture_id # "uploaded"
           /\ frames = "none"
    /\ pc = "aborted" => ~ENABLED Next
\* the process has aborted in initializeGL on the broken image
DecodeFailureWitness ==
    pc = "aborted" /\ image_path = "broken.jpg"

\* C7: a cancelled dialog ends the process with status 0: no window, no timer,
\* no texture, no frame, and nothing runs afterwards.
CancelExitsCleanly ==
    image_path = "" =>
        /\ pc = "exited"
        /\ exit_status = 0
        /\ ~window /\ ~timer
        /\ texture_id = None
        /\ frames = "none"
        /\ ~ENABLED Next
\* the dialog has been cancelled
CancelWitness ==
    image_path = "" /\ pc = "exited"

\* C8: the held-keys set is the set of keys whose most recent event was a
\* key-down, and only the key handlers change it.
KeysMatchKeyEvents ==
    /\ [](window => keys = down)
    /\ [][(window /\ keys' # keys) =>
             \E k \in KeysOf(profile) : keyPressEvent(k) \/ keyReleaseEvent(k)]_vars
\* W was pressed, moved the camera in a tick and was released; Space is held
KeysWitness ==
    window /\ keys = {"Space"} /\ cam_z # 0

\* C9: a tick with a zoom-in key held and Minus not held sets fov to
\* max(30, fov - 1) and moves the position by the held movement keys only.
ZoomInTickKeepsPosition ==
    \A t \in pre :
        (("Plus" \in keys \/ "Equal" \in keys) /\ "Minus" \notin keys) =>
            /\ fov = Max(30, t.fov - 1)
            /\ cam_x = t.x + DispX(keys, yaw)
            /\ cam_y = t.y + DispY(keys)
            /\ cam_z = t.z + DispZ(keys, yaw)
\* a tick has run with Plus and W held at the floor of 30 and moved the camera
ZoomInTickWitness ==
    \E t \in pre : "Plus" \in keys /\ "W" \in keys /\ t.fov = 30
                   /\ cam_z # t.z /\ cam_z # 0

\* C10: every frame is painted with the projection of the current fov: the
\* first resize precedes the first paint, and once the event loop runs the
\* fov held by gluPerspective is the camera's fov in every state.
ProjectionFollowsFov ==
    /\ frames # "stale"
    /\ frames # "none" => Projected
    /\ pc = "running" => proj_fov = fov
\* a frame has been painted after ticks that changed the fov
ProjectionWitness ==
    frames = "current" /\ ~dirty /\ pc = "running" /\ fov = 30

===========================================================================
